---- MODULE Spec2Model ----
(***************************************************************************)
(* A model of lib/portability.c: the mount list (xgetmountlist, with       *)
(* octal_deslash), the type filter (mountlist_istype) and the file-change  *)
(* notifier (xnotify_init / xnotify_add / xnotify_wait) in both of its     *)
(* backends.                                                               *)
(*                                                                         *)
(* A C string is a sequence of char codes (integers) without its           *)
(* terminator; memory holding a string is that sequence followed by 0.     *)
(*   92 '\'   48..57 '0'..'9'   44 ','   110 'n'   111 'o'   120 'x'       *)
(*   97 'a'   32 ' '                                                       *)
(***************************************************************************)
EXTENDS Integers, Sequences, FiniteSets, TLC

VARIABLES
  \* octal_deslash
  dsIn,       \* the string handed to octal_deslash
  dsRes,      \* [done, mem, oob]: memory after the call, out-of-bounds access seen
  \* mountlist_istype
  mlType,     \* ml->type
  typelist,   \* [null, s]: the typelist argument (a null pointer or a string)
  istype,     \* [done, fatal, ret]: outcome of the call
  \* xgetmountlist
  platform,   \* "linux" (getmntent) or "bsd" (getmntinfo)
  pathGiven,  \* whether the path argument is non-null
  table,      \* the native mount table, in enumeration order
  idx,        \* number of records enumerated so far
  mtlist,     \* the list under construction, head first
  mstate,     \* "loop", "returned" or "fatal"
  \* xnotify
  backend,    \* "inotify" or "kqueue"
  max,        \* not->max
  count,      \* not->count
  fds,        \* not->fds
  paths,      \* not->paths
  wroteOob,   \* a store went outside not->fds or not->paths
  nwatch,     \* the native watches: a set of [id, file]
  queue,      \* the native event queue: a sequence of [id, src]
  wpc,        \* the caller: "idle", "wait" (inside xnotify_wait) or "exit"
  ret,        \* [valid, tag, path]: what the last xnotify_wait returned
  fatal,      \* the message the process died with, or ""
  addlog,     \* the last xnotify_add call (history)
  adds,       \* the successful registrations, as [id, tag, path] (history)
  rejected,   \* the [tag, path] of calls the native layer refused (history)
  rd,         \* the outcome of the last native read in xnotify_wait (history)
  ev,         \* the last native event xnotify_wait obtained (history)
  unreported, \* registered paths modified and not yet returned (history)
  looping     \* the caller has entered its wait loop (history)

dsVars == <<dsIn, dsRes>>
ftVars == <<mlType, typelist, istype>>
mtVars == <<platform, pathGiven, table, idx, mtlist, mstate>>
xnVars == <<backend, max, count, fds, paths, wroteOob, nwatch, queue, wpc, ret,
            fatal, addlog, adds, rejected, rd, ev, unreported, looping>>
vars == <<dsVars, ftVars, mtVars, xnVars>>

----------------------------------------------------------------------------
(* Bounds of the model *)

MaxStrLen == 6
MaxTypeLen == 2
MaxSpecLen == 5
MaxRecords == 3
MaxCap == 2
MaxQueue == 2

----------------------------------------------------------------------------
(* C strings *)

\* All strings over alphabet A of length at most n
RECURSIVE StringsUpTo(_, _)
StringsUpTo(A, n) ==
  IF n = 0 THEN {<<>>}
  ELSE LET shorter == StringsUpTo(A, n - 1)
       IN shorter \cup {Append(s, c) : s \in {t \in shorter : Len(t) = n - 1}, c \in A}

\* s[k] of a terminated string, k counted from 0; the terminator is s[strlen]
CharAt(s, k) == IF k < Len(s) THEN s[k + 1] ELSE 0

\* the pointer s + k, for k <= strlen(s)
Advance(s, k) == SubSeq(s, k + 1, Len(s))

\* the string held by terminated memory: the bytes before the first 0
RECURSIVE CStr(_)
CStr(mem) ==
  IF mem = <<>> \/ Head(mem) = 0 THEN <<>> ELSE <<Head(mem)>> \o CStr(Tail(mem))

isdigit(c) == c >= 48 /\ c <= 57

\* strncmp(a, b, n): 0 when the first n chars (or all, up to the terminator) agree
RECURSIVE strncmp(_, _, _)
strncmp(a, b, n) ==
  IF n = 0 THEN 0
  ELSE LET ca == CharAt(a, 0)
           cb == CharAt(b, 0)
       IN IF ca # cb THEN (IF ca < cb THEN -1 ELSE 1)
          ELSE IF ca = 0 THEN 0
          ELSE strncmp(Tail(a), Tail(b), n - 1)

----------------------------------------------------------------------------
(* octal_deslash *)

\* a load from mem[k] (k from 0); outside the allocation it is flagged
MemAt(mem, k) == IF k < Len(mem) THEN mem[k + 1] ELSE 0
MemOob(mem, k) == k >= Len(mem)

\* the inner for loop: the first i in 1..4 with i = 4 or s[i] not a digit
RECURSIVE DigitRun(_, _, _)
DigitRun(mem, s, i) ==
  IF i < 4 /\ isdigit(MemAt(mem, s + i)) THEN DigitRun(mem, s, i + 1) ELSE i

\* oct after the inner loop stopped at i
RECURSIVE OctOf(_, _, _)
OctOf(mem, s, i) ==
  IF i <= 1 THEN 0 ELSE OctOf(mem, s, i - 1) * 8 + MemAt(mem, s + i - 1) - 48

\* the digit test the inner loop applies to s[i]
EscapeLen(mem, s) == DigitRun(mem, s, 1)

\* the while loop, from read offset s and write offset o
RECURSIVE deslash_loop(_, _, _, _)
deslash_loop(mem, s, o, oob) ==
  IF MemOob(mem, s) THEN [mem |-> mem, oob |-> TRUE]
  ELSE IF MemAt(mem, s) = 0 THEN [mem |-> [mem EXCEPT ![o + 1] = 0], oob |-> oob]
  ELSE LET i == IF MemAt(mem, s) = 92 THEN EscapeLen(mem, s) ELSE 0
           \* s[i] is loaded unless the loop ended on i = 4
           far == IF i >= 1 /\ i < 4 THEN MemOob(mem, s + i) ELSE FALSE
       IN IF i = 4
          THEN deslash_loop([mem EXCEPT ![o + 1] = OctOf(mem, s, 4) % 256],
                            s + 4, o + 1, oob)
          ELSE deslash_loop([mem EXCEPT ![o + 1] = MemAt(mem, s)],
                            s + 1, o + 1, oob \/ far)

octal_deslash(str) == deslash_loop(str \o <<0>>, 0, 0, FALSE)

DeslashAlphabet == {92, 48, 52, 56, 97}

DsInit ==
  /\ dsIn \in StringsUpTo(DeslashAlphabet, MaxStrLen)
  /\ dsRes = [done |-> FALSE, mem |-> <<>>, oob |-> FALSE]

DsIdle ==
  /\ dsIn = <<>>
  /\ dsRes = [done |-> FALSE, mem |-> <<>>, oob |-> FALSE]

Deslash ==
  /\ ~dsRes.done
  /\ dsRes' = [done |-> TRUE] @@ octal_deslash(dsIn)
  /\ UNCHANGED <<dsIn, ftVars, mtVars, xnVars>>

----------------------------------------------------------------------------
(* mountlist_istype *)

NullStr == [null |-> TRUE, s |-> <<>>]
Str(s) == [null |-> FALSE, s |-> s]

\* offset of the first ',' in s, or Len(s) when there is none
RECURSIVE CommaAt(_, _)
CommaAt(s, k) == IF k >= Len(s) \/ s[k + 1] = 44 THEN k ELSE CommaAt(s, k + 1)

\* comma_iterate(&list, &len): the next token's start t and length len, and
\* the advanced list; t is null when the list is null or at its terminator
comma_iterate(list) ==
  IF list.null \/ list.s = <<>>
  THEN [t |-> NullStr, len |-> 0, list |-> list]
  ELSE LET end == CommaAt(list.s, 0)
       IN IF end = Len(list.s)
          THEN [t |-> list, len |-> Len(list.s), list |-> NullStr]
          ELSE [t |-> list, len |-> end, list |-> Str(Advance(list.s, end + 1))]

\* return !skip (istype_mut_return: the negation dropped)
istype_mut_return(skip) == IF skip = 0 THEN 0 ELSE 1
istype_return(skip) == IF skip = 0 THEN 1 ELSE 0

\* the for (;;) loop
RECURSIVE istype_loop(_, _, _)
istype_loop(type, list, skip) ==
  LET it == comma_iterate(list)
      t == it.t.s
  IN IF it.t.null THEN [fatal |-> "", ret |-> istype_return(skip)]
     ELSE IF skip = 0
     THEN IF strncmp(t, <<110, 111>>, 2) # 0
          THEN [fatal |-> "bad typelist", ret |-> -1]
          ELSE IF strncmp(Advance(t, 2), type, it.len - 2) = 0
               THEN [fatal |-> "", ret |-> istype_return(1)]
               ELSE istype_loop(type, it.list, skip)
     ELSE IF strncmp(t, type, it.len) = 0 /\ CharAt(type, it.len) = 0
          THEN [fatal |-> "", ret |-> istype_return(0)]
          ELSE istype_loop(type, it.list, skip)

mountlist_istype(type, tl) ==
  IF tl.null THEN [fatal |-> "", ret |-> 1]
  ELSE istype_loop(type, tl, strncmp(tl.s, <<110, 111>>, 2))

TypeAlphabet == {110, 111, 120}
SpecAlphabet == {110, 111, 120, 44}

NoCall == [done |-> FALSE, fatal |-> "", ret |-> -1]

FtInit ==
  /\ mlType \in StringsUpTo(TypeAlphabet, MaxTypeLen)
  /\ typelist \in {NullStr} \cup {Str(s) : s \in StringsUpTo(SpecAlphabet, MaxSpecLen)}
  /\ istype = NoCall

FtIdle ==
  /\ mlType = <<>>
  /\ typelist = NullStr
  /\ istype = NoCall

IsType ==
  /\ ~istype.done
  /\ istype' = [done |-> TRUE] @@ mountlist_istype(mlType, typelist)
  /\ UNCHANGED <<mlType, typelist, dsVars, mtVars, xnVars>>

----------------------------------------------------------------------------
(* xgetmountlist *)

\* All sequences over S of length at most n
RECURSIVE SeqsUpTo(_, _)
SeqsUpTo(S, n) ==
  IF n = 0 THEN {<<>>}
  ELSE LET shorter == SeqsUpTo(S, n - 1)
       IN shorter \cup {Append(s, x) : s \in {t \in shorter : Len(t) = n - 1}, x \in S}

\* Native records: device "a", dir "a\040a", type "x", opts "o";
\* device "\040", dir "a", type "n", no opts; device "aa", dir "\04", type "o"
MountRecords ==
  { [fsname |-> <<97>>, dir |-> <<97, 92, 48, 52, 48, 97>>, type |-> <<120>>,
     opts |-> <<111>>],
    [fsname |-> <<92, 48, 52, 48>>, dir |-> <<97>>, type |-> <<110>>,
     opts |-> <<>>],
    [fsname |-> <<97, 97>>, dir |-> <<92, 48, 52>>, type |-> <<111>>,
     opts |-> <<120>>] }

\* dlist_add_nomalloc(&mtlist, mt): links the new entry in at the head
dlist_add_nomalloc(list, new) == <<new>> \o list

\* the entry the getmntent loop body fills in from record me
LinuxEntry(me) ==
  [type |-> me.type,
   dir |-> CStr(octal_deslash(me.dir).mem),
   device |-> CStr(octal_deslash(me.fsname).mem),
   opts |-> me.opts,
   statted |-> ~pathGiven]

\* the entry the getmntinfo loop body fills in from record me
BsdEntry(me) ==
  [type |-> me.type, dir |-> me.dir, device |-> me.fsname, opts |-> <<>>,
   statted |-> TRUE]

\* the loop test: getmntent(fp) returned a record / i < count
\* (MoreRecords_mut: the loop stops one record early)
MoreRecords_mut == idx + 1 < Len(table)
MoreRecords == idx < Len(table)

MtInit ==
  /\ platform \in {"linux", "bsd"}
  /\ pathGiven \in BOOLEAN
  /\ table \in SeqsUpTo(MountRecords, MaxRecords)
  /\ idx = 0
  /\ mtlist = <<>>
  /\ mstate = "call"

MtIdle ==
  /\ platform = "linux"
  /\ pathGiven = FALSE
  /\ table = <<>>
  /\ idx = 0
  /\ mtlist = <<>>
  /\ mstate = "idle"

\* setmntent succeeded / path is null and getmntinfo returned a count
XgmlOpen ==
  /\ mstate = "call"
  /\ IF platform = "bsd"
     THEN mstate' = IF pathGiven \/ Len(table) = 0 THEN "fatal" ELSE "loop"
     ELSE mstate' = "loop"
  /\ UNCHANGED <<platform, pathGiven, table, idx, mtlist, dsVars, ftVars, xnVars>>

\* setmntent returned null: perror_exit("bad %s")
XgmlOpenFails ==
  /\ mstate = "call"
  /\ platform = "linux"
  /\ mstate' = "fatal"
  /\ UNCHANGED <<platform, pathGiven, table, idx, mtlist, dsVars, ftVars, xnVars>>

\* one pass of the loop body
XgmlStep ==
  /\ mstate = "loop"
  /\ MoreRecords
  /\ LET me == table[idx + 1]
         mt == IF platform = "bsd" THEN BsdEntry(me) ELSE LinuxEntry(me)
     IN mtlist' = dlist_add_nomalloc(mtlist, mt)
  /\ idx' = idx + 1
  /\ UNCHANGED <<platform, pathGiven, table, mstate, dsVars, ftVars, xnVars>>

\* the loop ends: endmntent, return mtlist
XgmlReturn ==
  /\ mstate = "loop"
  /\ ~MoreRecords
  /\ mstate' = "returned"
  /\ UNCHANGED <<platform, pathGiven, table, idx, mtlist, dsVars, ftVars, xnVars>>

----------------------------------------------------------------------------
(* xnotify: the registry *)

\* The caller's open descriptors (the tags) and the files they are open on
Fds == {5, 6}
Paths == {"/tmp/a", "/tmp/b"}
FileOf(fd) == IF fd = 5 THEN "/tmp/a" ELSE "/tmp/b"

\* xmalloc'ed arrays: max paths, and max (kqueue) or 2*max (inotify) ints,
\* indexed from 0, their contents not initialised
NewPaths(n) == [i \in 0..(n - 1) |-> "?"]
NewFds(n) == [i \in 0..(n - 1) |-> -99]
FdsLen(be, n) == IF be = "inotify" THEN 2 * n ELSE n

\* a store arr[i] = v; one outside the allocation is recorded in wroteOob
Store(arr, i, v) == IF i \in DOMAIN arr THEN [arr EXCEPT ![i] = v] ELSE arr
Outside(arr, i) == i \notin DOMAIN arr

\* slot i of the registry as xnotify_wait reads it: the id the scan compares
\* with the event, and the tag it returns (TagAt_mut: the inotify wait
\* returns the slot's watch id, the kqueue wait the first slot's descriptor)
IdAt(f, i) == IF backend = "inotify" THEN f[2 * i] ELSE f[i]
TagAt_mut(f, i) == IF backend = "inotify" THEN f[2 * i] ELSE f[0]
TagAt(f, i) == IF backend = "inotify" THEN f[2 * i + 1] ELSE f[i]

\* the registrations: slots 0..count-1
Registry ==
  [i \in 0..(count - 1) |-> [id |-> IdAt(fds, i), tag |-> TagAt(fds, i), path |-> paths[i]]]

\* if (not->max == not->count) error_exit("xnotify_add overflow")
\* (AddOverflow_mut: the test lets one registration too many through)
AddOverflow_mut == count = max + 1
AddOverflow == count = max

\* inotify xnotify_add past the overflow test, inotify_add_watch returning wd
\* (AddInotify_mut: the slot is filled and count advanced before wd is tested)
AddInotify_mut(fd, path, wd) ==
  LET i == 2 * count
  IN [fds |-> Store(Store(fds, i, wd), i + 1, fd),
      paths |-> Store(paths, count, path),
      count |-> count + 1,
      oob |-> Outside(fds, i) \/ Outside(fds, i + 1) \/ Outside(paths, count),
      ret |-> IF wd = -1 THEN -1 ELSE 0]
AddInotify(fd, path, wd) ==
  LET i == 2 * count
  IN IF wd = -1
     THEN [fds |-> Store(fds, i, wd), paths |-> paths, count |-> count,
           oob |-> Outside(fds, i), ret |-> -1]
     ELSE [fds |-> Store(Store(fds, i, wd), i + 1, fd),
           paths |-> Store(paths, count, path),
           count |-> count + 1,
           oob |-> Outside(fds, i) \/ Outside(fds, i + 1) \/ Outside(paths, count),
           ret |-> 0]

\* kqueue xnotify_add past the overflow test, kevent(EV_ADD) returning rc
AddKqueue(fd, path, rc) ==
  IF rc = -1
  THEN [fds |-> fds, paths |-> paths, count |-> count, oob |-> FALSE, ret |-> -1]
  ELSE [fds |-> Store(fds, count, fd),
        paths |-> Store(paths, count, path),
        count |-> count + 1,
        oob |-> Outside(fds, count) \/ Outside(paths, count),
        ret |-> 0]

\* inotify_add_watch(kq, path, IN_MODIFY) when it succeeds: the watch
\* descriptor the path already has, or the next unused one
WdFor(path) ==
  IF \E w \in nwatch : w.file = path
  THEN (CHOOSE w \in nwatch : w.file = path).id
  ELSE Cardinality(nwatch) + 1

\* the scan of xnotify_wait: the slots i < count whose id is the event's
Matches(id) == {i \in 0..(count - 1) : IdAt(fds, i) = id}
FirstMatch(id) == CHOOSE i \in Matches(id) : \A j \in Matches(id) : i <= j

----------------------------------------------------------------------------
(* xnotify: the caller, the native layer and the three entry points *)

NoRet == [valid |-> FALSE, tag |-> 0, path |-> ""]
NoEvent == [id |-> 0, src |-> ""]
NoAdd ==
  [called |-> FALSE, tag |-> 0, path |-> "", pre |-> 0, prereg |-> <<>>,
   native |-> FALSE, answer |-> 0, ret |-> 0, overflow |-> FALSE,
   afterRefused |-> FALSE, prevPre |-> 0]

\* the state xnotify_init(max) returns
XnInit ==
  /\ backend \in {"inotify", "kqueue"}
  /\ max \in 0..MaxCap
  /\ count = 0
  /\ fds = NewFds(FdsLen(backend, max))
  /\ paths = NewPaths(max)
  /\ wroteOob = FALSE
  /\ nwatch = {}
  /\ queue = <<>>
  /\ wpc = "idle"
  /\ ret = NoRet
  /\ fatal = ""
  /\ addlog = NoAdd
  /\ adds = {}
  /\ rejected = {}
  /\ rd = "none"
  /\ ev = NoEvent
  /\ unreported = {}
  /\ looping = FALSE

XnIdle ==
  /\ backend = "inotify"
  /\ max = 0
  /\ count = 0
  /\ fds = <<>>
  /\ paths = <<>>
  /\ wroteOob = FALSE
  /\ nwatch = {}
  /\ queue = <<>>
  /\ wpc = "off"
  /\ ret = NoRet
  /\ fatal = ""
  /\ addlog = NoAdd
  /\ adds = {}
  /\ rejected = {}
  /\ rd = "none"
  /\ ev = NoEvent
  /\ unreported = {}
  /\ looping = FALSE

\* the descriptors the caller may pass with a path: kqueue watches the
\* descriptor itself, so it is one open on that path; inotify only keeps it
TagsFor(path) == IF backend = "kqueue" THEN {fd \in Fds : FileOf(fd) = path} ELSE Fds

LogOf(fd, path) ==
  [called |-> TRUE, tag |-> fd, path |-> path, pre |-> count, prereg |-> Registry,
   native |-> FALSE, answer |-> 0, ret |-> 0, overflow |-> FALSE,
   afterRefused |-> addlog.native /\ addlog.answer = -1, prevPre |-> addlog.pre]

\* xnotify_add(not, fd, path) at capacity: error_exit
AddFatal(fd, path) ==
  /\ wpc = "idle"
  /\ AddOverflow
  /\ fatal' = "xnotify_add overflow"
  /\ wpc' = "exit"
  /\ addlog' = [LogOf(fd, path) EXCEPT !.overflow = TRUE]
  /\ UNCHANGED <<backend, max, count, fds, paths, wroteOob, nwatch, queue, ret,
                 adds, rejected, rd, ev, unreported, looping>>

\* xnotify_add(not, fd, path) below capacity; id is what the native
\* watch-add answers: -1 when it refuses, else the watch id
AddNative(fd, path, id) ==
  /\ wpc = "idle"
  /\ ~AddOverflow
  /\ LET r == IF backend = "inotify" THEN AddInotify(fd, path, id)
              ELSE AddKqueue(fd, path, IF id = -1 THEN -1 ELSE 0)
     IN /\ fds' = r.fds
        /\ paths' = r.paths
        /\ count' = r.count
        /\ wroteOob' = (wroteOob \/ r.oob)
        /\ addlog' = [LogOf(fd, path) EXCEPT !.native = TRUE, !.answer = id, !.ret = r.ret]
  /\ nwatch' = IF id = -1 THEN nwatch
               ELSE nwatch \cup {[id |-> id,
                                  file |-> IF backend = "inotify" THEN path ELSE FileOf(fd)]}
  /\ adds' = IF id = -1 THEN adds ELSE adds \cup {[id |-> id, tag |-> fd, path |-> path]}
  /\ rejected' = IF id = -1 THEN rejected \cup {[tag |-> fd, path |-> path]} ELSE rejected
  /\ UNCHANGED <<backend, max, queue, wpc, ret, fatal, rd, ev, unreported, looping>>

\* the id a successful native watch-add gives
NativeId(fd, path) == IF backend = "inotify" THEN WdFor(path) ELSE fd

AddOk == \E path \in Paths : \E fd \in TagsFor(path) : AddNative(fd, path, NativeId(fd, path))
AddRefused == \E path \in Paths : \E fd \in TagsFor(path) : AddNative(fd, path, -1)
AddAtCapacity == \E path \in Paths : \E fd \in TagsFor(path) : AddFatal(fd, path)

\* the caller enters xnotify_wait
WaitCall ==
  /\ wpc = "idle"
  /\ wpc' = "wait"
  /\ ret' = NoRet
  /\ rd' = "none"
  /\ ev' = NoEvent
  /\ looping' = TRUE
  /\ UNCHANGED <<backend, max, count, fds, paths, wroteOob, nwatch, queue, fatal,
                 addlog, adds, rejected, unreported>>

\* one pass of the for (;;) loop in which the native read hands over an event
WaitEvent ==
  /\ wpc = "wait"
  /\ queue # <<>>
  /\ LET e == Head(queue)
     IN /\ queue' = Tail(queue)
        /\ ev' = e
        /\ IF Matches(e.id) # {}
           THEN LET i == FirstMatch(e.id)
                IN /\ ret' = [valid |-> TRUE, tag |-> TagAt(fds, i), path |-> paths[i]]
                   /\ wpc' = "idle"
                   /\ rd' = "matched"
                   /\ unreported' = unreported \ {paths[i]}
           ELSE /\ rd' = "unmatched"
                /\ UNCHANGED <<ret, wpc, unreported>>
  /\ UNCHANGED <<backend, max, count, fds, paths, wroteOob, nwatch, fatal, addlog,
                 adds, rejected, looping>>

\* one pass in which the native read fails (-1) or, for inotify, returns fewer
\* bytes than an event: inotify dies in perror_exit, kqueue goes round again
WaitReadFails(how) ==
  /\ wpc = "wait"
  /\ rd' = how
  /\ IF backend = "inotify"
     THEN /\ fatal' = "inotify"
          /\ wpc' = "exit"
     ELSE /\ how = "failed"
          /\ UNCHANGED <<fatal, wpc>>
  /\ UNCHANGED <<backend, max, count, fds, paths, wroteOob, nwatch, queue, ret,
                 addlog, adds, rejected, ev, unreported, looping>>

WaitFails == \E how \in {"failed", "short"} : WaitReadFails(how)

\* events of ids appended to q: kqueue holds an active knote once, inotify
\* merges an event equal to the last one queued
RECURSIVE Enqueue(_, _, _)
Enqueue(q, ids, src) ==
  IF ids = <<>> THEN q
  ELSE LET e == [id |-> Head(ids), src |-> src]
           merged == IF backend = "kqueue"
                     THEN \E k \in 1..Len(q) : q[k].id = e.id
                     ELSE q # <<>> /\ q[Len(q)] = e
       IN Enqueue(IF merged THEN q ELSE Append(q, e), Tail(ids), src)

OrdersOf(S) == {s \in [1..Cardinality(S) -> S] : \A x \in S : \E k \in DOMAIN s : s[k] = x}

\* something writes to the file at path p
Modify(p) ==
  /\ wpc \in {"idle", "wait"}
  /\ LET ids == {w.id : w \in {v \in nwatch : v.file = p}}
     IN /\ ids # {}
        /\ \E order \in OrdersOf(ids) :
             /\ queue' = Enqueue(queue, order, p)
             /\ Len(queue') <= MaxQueue
  /\ unreported' = unreported \cup {p}
  /\ UNCHANGED <<backend, max, count, fds, paths, wroteOob, nwatch, wpc, ret, fatal,
                 addlog, adds, rejected, rd, ev, looping>>

Modified == \E p \in Paths : Modify(p)

\* inotify queues an event that belongs to no watch (IN_Q_OVERFLOW, wd -1)
Spurious ==
  /\ wpc \in {"idle", "wait"}
  /\ backend = "inotify"
  /\ Len(queue) < MaxQueue
  /\ queue' = Append(queue, [id |-> -1, src |-> ""])
  /\ UNCHANGED <<backend, max, count, fds, paths, wroteOob, nwatch, wpc, ret, fatal,
                 addlog, adds, rejected, rd, ev, unreported, looping>>

----------------------------------------------------------------------------
(* Specifications *)

DsNext == Deslash
InitDeslash == DsInit /\ FtIdle /\ MtIdle /\ XnIdle
SpecDeslash == InitDeslash /\ [][DsNext]_vars

FtNext == IsType
InitIsType == DsIdle /\ FtInit /\ MtIdle /\ XnIdle
SpecIsType == InitIsType /\ [][FtNext]_vars

MtNext == XgmlOpen \/ XgmlOpenFails \/ XgmlStep \/ XgmlReturn
InitMount == DsIdle /\ FtIdle /\ MtInit /\ XnIdle
SpecMount == InitMount /\ [][MtNext]_vars

XnNext ==
  \/ (AddOk /\ UNCHANGED <<dsVars, ftVars, mtVars>>)
  \/ (AddRefused /\ UNCHANGED <<dsVars, ftVars, mtVars>>)
  \/ (AddAtCapacity /\ UNCHANGED <<dsVars, ftVars, mtVars>>)
  \/ (WaitCall /\ UNCHANGED <<dsVars, ftVars, mtVars>>)
  \/ (WaitEvent /\ UNCHANGED <<dsVars, ftVars, mtVars>>)
  \/ (WaitFails /\ UNCHANGED <<dsVars, ftVars, mtVars>>)
  \/ (Modified /\ UNCHANGED <<dsVars, ftVars, mtVars>>)
  \/ (Spurious /\ UNCHANGED <<dsVars, ftVars, mtVars>>)
InitNotify == DsIdle /\ FtIdle /\ MtIdle /\ XnInit
SpecNotify == InitNotify /\ [][XnNext]_vars

\* The caller of the wait loop: every xnotify_add comes before the first
\* xnotify_wait, and it goes on calling xnotify_wait
AddSetup == ~looping /\ (AddOk \/ AddRefused)

LiveNext ==
  \/ (AddSetup /\ UNCHANGED <<dsVars, ftVars, mtVars>>)
  \/ (WaitCall /\ UNCHANGED <<dsVars, ftVars, mtVars>>)
  \/ (WaitEvent /\ UNCHANGED <<dsVars, ftVars, mtVars>>)
  \/ (WaitFails /\ UNCHANGED <<dsVars, ftVars, mtVars>>)
  \/ (Modified /\ UNCHANGED <<dsVars, ftVars, mtVars>>)
  \/ (Spurious /\ UNCHANGED <<dsVars, ftVars, mtVars>>)

\* the caller calls xnotify_wait again whenever it has returned, and a
\* blocked read is handed the event waiting at the head of the queue
SpecNotifyLive ==
  /\ InitNotify
  /\ [][LiveNext]_vars
  /\ WF_vars(WaitCall /\ UNCHANGED <<dsVars, ftVars, mtVars>>)
  /\ WF_vars(WaitEvent /\ UNCHANGED <<dsVars, ftVars, mtVars>>)

----------------------------------------------------------------------------
(* Properties *)

C2_WaitReturnsRegisteredPair ==
  ret.valid =>
    /\ [id |-> ev.id, tag |-> ret.tag, path |-> ret.path] \in adds
    /\ ev.src = ret.path

\* C2 witness: add(5, "/tmp/a"); add(6, "/tmp/b"); /tmp/b is modified and
\* xnotify_wait returns (6, "/tmp/b")
C2_Witness ==
  /\ ret.valid
  /\ count = 2
  /\ Registry[0].tag = 5 /\ Registry[0].path = "/tmp/a"
  /\ Registry[1].tag = 6 /\ Registry[1].path = "/tmp/b"
  /\ ret.tag = 6 /\ ret.path = "/tmp/b"

\* C3: count stays within 0..max, no store goes outside the registry arrays,
\* and an xnotify_add issued at count = max dies with "xnotify_add overflow"
\* without calling the native watch-add and without registering anything.
C3_CapacityBound ==
  /\ 0 <= count /\ count <= max
  /\ ~wroteOob
  /\ (addlog.called /\ addlog.pre = max) => addlog.overflow
  /\ addlog.overflow =>
       /\ ~addlog.native
       /\ fatal = "xnotify_add overflow" /\ wpc = "exit"
       /\ count = addlog.pre
       /\ Registry = addlog.prereg
       /\ \A a \in adds : \E i \in DOMAIN Registry : Registry[i] = a

\* C3 witness: a registry of capacity at least 1 was filled and one more
\* xnotify_add was issued
C3_Witness ==
  /\ addlog.overflow
  /\ max >= 1
  /\ count = max

\* C7: a failed or short native read, or an event whose id matches no
\* registration, leaves the caller inside xnotify_wait: nothing is returned
\* and the process does not die.
C7_SpuriousRetried ==
  rd \in {"failed", "short", "unmatched"} =>
    /\ wpc = "wait"
    /\ fatal = ""
    /\ ~ret.valid

\* C8: with every add before the wait loop and the caller calling
\* xnotify_wait again and again, each modification of a registered path is
\* eventually followed by an xnotify_wait that returns that path.
C8_EveryModificationReported ==
  \A p \in Paths : (p \in unreported) ~> (p \notin unreported)

----------------------------------------------------------------------------
(* Properties of the type filter and of the escape decoder *)

\* the tokens of a comma-separated list
RECURSIVE Tokens(_)
Tokens(s) ==
  LET end == CommaAt(s, 0)
  IN IF end = Len(s) THEN <<s>>
     ELSE <<SubSeq(s, 1, end)>> \o Tokens(Advance(s, end + 1))

HasMarker(tok) == Len(tok) >= 2 /\ tok[1] = 110 /\ tok[2] = 111
NoEmptyToken(s) == \A k \in DOMAIN Tokens(s) : Tokens(s)[k] # <<>>
AllMarked(s) == \A k \in DOMAIN Tokens(s) : HasMarker(Tokens(s)[k])
NoneMarked(s) == \A k \in DOMAIN Tokens(s) : ~HasMarker(Tokens(s)[k])

\* exact, full-length matching of type against a well-formed list
ExactMatch(type, s) ==
  IF AllMarked(s)
  THEN \A k \in DOMAIN Tokens(s) : Advance(Tokens(s)[k], 2) # type
  ELSE \E k \in DOMAIN Tokens(s) : Tokens(s)[k] = type

\* C4: for a non-empty list whose tokens are all inclusions or all
\* exclusions, mountlist_istype decides by exact string equality: an
\* inclusion list matches iff the type equals a token, an exclusion list
\* matches iff the type equals no token with its "no" removed.
C4_ExactMatching ==
  (istype.done /\ ~typelist.null /\ NoEmptyToken(typelist.s)
     /\ (AllMarked(typelist.s) \/ NoneMarked(typelist.s))) =>
    /\ istype.fatal = ""
    /\ istype.ret = IF ExactMatch(mlType, typelist.s) THEN 1 ELSE 0

\* C5: a list holding both a token with the "no" marker and a token without
\* it makes mountlist_istype die with "bad typelist", whichever comes first
\* and whatever the entry's type.
C5_MixedListIsFatal ==
  (istype.done /\ ~typelist.null /\ NoEmptyToken(typelist.s)
     /\ ~AllMarked(typelist.s) /\ ~NoneMarked(typelist.s)) =>
    istype.fatal = "bad typelist"

\* C10 as claimed: mountlist_istype returns true for a null list and for the
\* empty string.
C10_EmptyOrAbsentMatches ==
  (istype.done /\ (typelist.null \/ typelist.s = <<>>)) =>
    (istype.fatal = "" /\ istype.ret = 1)

\* C10 as amended: mountlist_istype returns true for a null list; for the
\* empty string it returns false for every entry whose type is not empty.
C10_AbsentMatchesEmptyDoesNot ==
  istype.done =>
    /\ typelist.null => (istype.fatal = "" /\ istype.ret = 1)
    /\ (~typelist.null /\ typelist.s = <<>> /\ mlType # <<>>) =>
         (istype.fatal = "" /\ istype.ret = 0)

\* C10 witness: the call returned for the empty string and a type "x"
C10_Witness ==
  /\ istype.done
  /\ ~typelist.null /\ typelist.s = <<>>
  /\ mlType = <<120>>
  /\ istype.ret = 0

\* the decoder of the claim: a backslash followed by three digits '0'..'7'
\* becomes the byte of that octal value, every other byte is copied
RECURSIVE RefDecode(_)
RefDecode(s) ==
  IF s = <<>> THEN <<>>
  ELSE IF /\ s[1] = 92
          /\ Len(s) >= 4
          /\ \A k \in 2..4 : s[k] >= 48 /\ s[k] <= 55
       THEN <<((s[2] - 48) * 64 + (s[3] - 48) * 8 + (s[4] - 48)) % 256>>
              \o RefDecode(Advance(s, 4))
       ELSE <<s[1]>> \o RefDecode(Tail(s))

\* C6: octal_deslash leaves the string the reference decoder gives, never a
\* longer one, and loads nothing beyond the terminator.
C6_DecodesOctalEscapes ==
  dsRes.done =>
    /\ CStr(dsRes.mem) = CStr(RefDecode(dsIn))
    /\ Len(CStr(dsRes.mem)) <= Len(dsIn)
    /\ ~dsRes.oob

====
